---- MODULE Spec2Model ----
(***************************************************************************)
(* Model of src/runtimes/lua/luawrap.h: five inline C functions that each  *)
(* forward to one macro of the Lua C API (lua_pop, lua_pcall,              *)
(* lua_isfunction, lua_tonumber, lua_tostring).                            *)
(*                                                                         *)
(* The interpreter state lua_State is modelled by its value stack, its top *)
(* (as the engine keeps it: an offset that the engine does not clamp), a   *)
(* liveness flag (lua_close) and a fault marker recording that an engine   *)
(* precondition was violated.  The engine macros follow the Lua reference  *)
(* manual; where the manual leaves the behaviour undefined the model draws *)
(* the outcome from the set of outcomes a build can produce.               *)
(***************************************************************************)
EXTENDS Integers, Sequences, FiniteSets, TLC

VARIABLES
    stack,    \* the values on the interpreter's stack, bottom first
    top,      \* the engine's stack top, as an offset from the base
    live,     \* FALSE once lua_close has released the state
    fault,    \* "none", or how an engine precondition was violated
    last,     \* the call that has just returned (its arguments, the state
              \* before it, its result), or Idle once the host has taken it
    base,     \* depth at the start of the current run of pushes and pops
    pushed,   \* values pushed in that run
    popped    \* values popped in that run

vars == <<stack, top, live, fault, last, base, pushed, popped>>

(* ------------------------------ bounds -------------------------------- *)

\* Largest stack depth the host is let to build.
MaxStack == 3

\* Largest count handed to Pop and largest nresults handed to ProtectedCall.
MaxCount == 3

\* Highest stack index at which the host installs a message handler.
MaxErrFunc == 1

\* Longest run of pushes and pops whose depth is accounted for.
MaxOps == 5

(* --------------------------- engine constants -------------------------- *)

\* lua.h: #define LUA_MULTRET (-1)
LUA_MULTRET == -1

(* ------------------------------ values --------------------------------- *)

\* A tagged Lua value (TValue).  Every value has the same record shape:
\* t the type name, n the number, s the characters, f the function's body.
Val(t, n, s, f) == [t |-> t, n |-> n, s |-> s, f |-> f]

Nil == Val("nil", 0, <<>>, "")

True == Val("boolean", 1, <<>>, "")

Num(n) == Val("number", n, <<>>, "")

Str(s) == Val("string", 0, s, "")

Tab == Val("table", 0, <<>>, "")

Fn(k) == Val("function", 0, <<>>, k)

\* The message a script raises with error("boom").
MsgBoom == <<"b", "o", "o", "m">>

\* A diagnostic the engine itself writes (a syntax error, "attempt to call
\* a nil value", "not enough memory", "error in error handling"): the
\* wording is the engine's and plays no part here, so one text stands for
\* all of them.
MsgEngine == <<"l", "u", "a">>

\* A pointer into freed or foreign memory, as a read of an invalid index
\* can return.
Garbage == <<"?">>

(* -------------------------- number <-> string -------------------------- *)

DigitVal(c) ==
    CASE c = "0" -> 0 [] c = "1" -> 1 [] c = "2" -> 2 [] c = "3" -> 3
      [] c = "4" -> 4 [] c = "5" -> 5 [] c = "6" -> 6 [] c = "7" -> 7
      [] c = "8" -> 8 [] c = "9" -> 9 [] OTHER -> -1

DigitChar(d) ==
    CASE d = 0 -> "0" [] d = 1 -> "1" [] d = 2 -> "2" [] d = 3 -> "3"
      [] d = 4 -> "4" [] d = 5 -> "5" [] d = 6 -> "6" [] d = 7 -> "7"
      [] d = 8 -> "8" [] OTHER -> "9"

RECURSIVE StripL(_)
StripL(s) == IF s # <<>> /\ Head(s) = " " THEN StripL(Tail(s)) ELSE s

RECURSIVE StripR(_)
StripR(s) ==
    IF s # <<>> /\ s[Len(s)] = " " THEN StripR(SubSeq(s, 1, Len(s) - 1)) ELSE s

AllDigits(s) == \A i \in 1..Len(s) : DigitVal(s[i]) >= 0

RECURSIVE DigitsVal(_, _)
DigitsVal(s, acc) ==
    IF s = <<>> THEN acc ELSE DigitsVal(Tail(s), acc * 10 + DigitVal(Head(s)))

\* The engine's string-to-number conversion (decimal integers, optional
\* sign, surrounding blanks): ok tells whether the text is a numeral.
Str2Num(s) ==
    LET t == StripR(StripL(s))
        neg == t # <<>> /\ Head(t) = "-"
        d == IF neg THEN Tail(t) ELSE t
    IN  IF d = <<>> \/ ~AllDigits(d)
        THEN [ok |-> FALSE, n |-> 0]
        ELSE [ok |-> TRUE, n |-> IF neg THEN 0 - DigitsVal(d, 0) ELSE DigitsVal(d, 0)]

RECURSIVE NatDigits(_)
NatDigits(n) ==
    IF n < 10 THEN <<DigitChar(n)>> ELSE NatDigits(n \div 10) \o <<DigitChar(n % 10)>>

\* The engine's number-to-string conversion.
Num2Str(n) == IF n < 0 THEN <<"-">> \o NatDigits(0 - n) ELSE NatDigits(n)

(* --------------------------- interpreter state ------------------------- *)

\* lua_State as the engine functions see it.
State(s, t, l, f) == [stack |-> s, top |-> t, live |-> l, fault |-> f]

\* What a call hands back to the host, in one record shape for all five
\* functions: status (lua_pcall's int, by name), num (lua_Number), ptr and
\* text (const char *), flag (lua_isfunction's int), and what happened
\* inside a protected call: the values the function returned (vals), the
\* error it raised (raised, rawerr) and the message handler's invocation
\* (hcalled, harg).
NoRet ==
    [status |-> "", num |-> 0, ptr |-> "null", text |-> <<>>, flag |-> FALSE,
     hcalled |-> FALSE, harg |-> Nil, raised |-> "none", rawerr |-> Nil,
     vals |-> <<>>]

Outcome(L, ret) == [L |-> L, ret |-> ret]

\* The engine was entered with a precondition of its API violated: what it
\* does next is undefined.
Faulted(L, f) == [L EXCEPT !.fault = f]

\* Every engine function dereferences L first: on a closed state that is a
\* use of freed memory.
OnLive(L, outs) ==
    IF L.live THEN outs ELSE {Outcome(Faulted(L, "use_after_free"), NoRet)}

\* index2value: where a stack index points.  Positive indices above the
\* top are acceptable and read as "none"; zero and negative indices below
\* the base are not valid indices at all.
Index(L, idx) ==
    IF idx > 0
    THEN IF idx <= L.top THEN [kind |-> "slot", pos |-> idx]
                         ELSE [kind |-> "none", pos |-> 0]
    ELSE IF idx # 0 /\ 0 - idx <= L.top
         THEN [kind |-> "slot", pos |-> L.top + idx + 1]
         ELSE [kind |-> "invalid", pos |-> 0]

(* ------------------------------ lua_settop ----------------------------- *)

\* lua_settop(L, idx).  A negative idx moves the top by idx + 1 without a
\* check in a release build (the api_check exists only under
\* LUA_USE_APICHECK, where it aborts the process).
lua_settop(L, idx) ==
    IF idx >= 0
    THEN {Outcome([L EXCEPT !.top = idx,
                            !.stack = [i \in 1..idx |->
                                 IF i <= L.top THEN L.stack[i] ELSE Nil]],
                  NoRet)}
    ELSE LET nt == L.top + idx + 1
         IN  IF nt >= 0
             THEN {Outcome([L EXCEPT !.top = nt,
                                     !.stack = SubSeq(L.stack, 1, nt)], NoRet)}
             ELSE {Outcome(Faulted(L, "api_check_abort"), NoRet),
                   Outcome([L EXCEPT !.top = nt, !.stack = <<>>,
                                     !.fault = "stack_underflow"], NoRet)}

\* lua.h: #define lua_pop(L,n) lua_settop(L, -(n)-1)
lua_pop(L, n) == OnLive(L, lua_settop(L, 0 - n - 1))

(* ------------------------------ lua_pcall ------------------------------ *)

\* What running the value f on the arguments args does: the scripts the
\* host loads are "echo" (return ...), "pair" (return {}, "42"), "err"
\* (error("boom")), "oom" (exhausts memory) and "tb" (a message handler,
\* function(e) return {e} end).  Calling a non-function raises.
CallBody(f, args) ==
    IF f.t # "function"
    THEN [kind |-> "run", vals |-> <<>>, err |-> Str(MsgEngine)]
    ELSE CASE f.f = "echo" -> [kind |-> "return", vals |-> args, err |-> Nil]
           [] f.f = "pair" ->
                [kind |-> "return", vals |-> <<Tab, Str(<<"4", "2">>)>>, err |-> Nil]
           [] f.f = "err" -> [kind |-> "run", vals |-> <<>>, err |-> Str(MsgBoom)]
           [] f.f = "oom" -> [kind |-> "mem", vals |-> <<>>, err |-> Str(MsgEngine)]
           [] OTHER ->
                [kind |-> "return", vals |-> <<Tab>>, err |-> Nil]

\* The engine's adjustment of results to the requested count: nil padding,
\* truncation, or everything under LUA_MULTRET.
Adjust(vals, nresults) ==
    IF nresults = LUA_MULTRET
    THEN vals
    ELSE [i \in 1..nresults |-> IF i <= Len(vals) THEN vals[i] ELSE Nil]

\* The error value of a failed protected call and its status.  A runtime
\* error goes through the message handler when one is given; a memory
\* error does not; a runtime error inside the handler is LUA_ERRERR.
ErrorResult(L, body, errfunc) ==
    IF body.kind = "mem"
    THEN [status |-> "LUA_ERRMEM", val |-> body.err, hcalled |-> FALSE, harg |-> Nil]
    ELSE IF errfunc = 0
    THEN [status |-> "LUA_ERRRUN", val |-> body.err, hcalled |-> FALSE, harg |-> Nil]
    ELSE LET h == L.stack[errfunc]
             hb == CallBody(h, <<body.err>>)
         IN  IF hb.kind = "return"
             THEN [status |-> "LUA_ERRRUN",
                   val |-> IF hb.vals = <<>> THEN Nil ELSE hb.vals[1],
                   hcalled |-> h.t = "function", harg |-> body.err]
             ELSE [status |-> IF hb.kind = "mem" THEN "LUA_ERRMEM" ELSE "LUA_ERRERR",
                   val |-> Str(MsgEngine),
                   hcalled |-> h.t = "function",
                   harg |-> IF h.t = "function" THEN body.err ELSE Nil]

\* lua_pcall(L, nargs, nresults, errfunc): call the value beneath the top
\* nargs values in protected mode.
lua_pcall(L, nargs, nresults, errfunc) ==
    LET fpos == L.top - nargs
    IN  IF nargs < 0 \/ fpos < 1 \/ errfunc < 0 \/ errfunc >= fpos
           \/ nresults < LUA_MULTRET
        THEN OnLive(L, {Outcome(Faulted(L, "api_check_abort"), NoRet),
                        Outcome(Faulted(L, "bad_call_frame"), NoRet)})
        ELSE LET below == SubSeq(L.stack, 1, fpos - 1)
                 body == CallBody(L.stack[fpos], SubSeq(L.stack, fpos + 1, L.top))
                 er == ErrorResult(L, body, errfunc)
                 out == IF body.kind = "return"
                        THEN below \o Adjust(body.vals, nresults)
                        ELSE below \o <<er.val>>
             IN  OnLive(L,
                   {Outcome([L EXCEPT !.stack = out, !.top = Len(out)],
                      IF body.kind = "return"
                      THEN [NoRet EXCEPT !.status = "LUA_OK",
                                         !.vals = body.vals]
                      ELSE [NoRet EXCEPT !.status = er.status,
                                         !.raised = body.kind,
                                         !.rawerr = body.err,
                                         !.hcalled = er.hcalled,
                                         !.harg = er.harg])})

(* ------------------------- the reading macros -------------------------- *)

\* lua_type(L, idx): the type name of the value, "none" for an acceptable
\* index above the top.
lua_type(L, idx) ==
    LET i == Index(L, idx)
    IN  IF i.kind = "slot" THEN L.stack[i.pos].t ELSE "none"

\* lua.h: #define lua_isfunction(L,n) (lua_type(L, (n)) == LUA_TFUNCTION)
\* An invalid index reads memory outside the frame: either answer.
lua_isfunction(L, idx) ==
    OnLive(L,
      IF Index(L, idx).kind = "invalid"
      THEN {Outcome(Faulted(L, "api_check_abort"), NoRet)}
           \cup {Outcome(L, [NoRet EXCEPT !.flag = b]) : b \in BOOLEAN}
      ELSE {Outcome(L, [NoRet EXCEPT !.flag = (lua_type(L, idx) = "function")])})

\* lua.h: #define lua_tonumber(L,i) lua_tonumberx(L,(i),NULL)
\* Numbers as they are, numeric strings converted, anything else 0.
lua_tonumber(L, idx) ==
    LET i == Index(L, idx)
        v == IF i.kind = "slot" THEN L.stack[i.pos] ELSE Nil
        n == IF v.t = "number" THEN v.n
             ELSE IF v.t = "string" /\ Str2Num(v.s).ok THEN Str2Num(v.s).n
             ELSE 0
    IN  OnLive(L,
          IF i.kind = "invalid"
          THEN {Outcome(Faulted(L, "api_check_abort"), NoRet)}
               \cup {Outcome(L, [NoRet EXCEPT !.num = g]) : g \in {0, 42}}
          ELSE {Outcome(L, [NoRet EXCEPT !.num = n])})

\* lua.h: #define lua_tostring(L,i) lua_tolstring(L, (i), NULL)
\* A string yields its text; a number is converted to a string IN the
\* stack slot and yields that text; anything else yields NULL.
lua_tostring(L, idx) ==
    LET i == Index(L, idx)
        v == IF i.kind = "slot" THEN L.stack[i.pos] ELSE Nil
    IN  OnLive(L,
          IF i.kind = "invalid"
          THEN {Outcome(Faulted(L, "api_check_abort"), NoRet),
                Outcome(L, NoRet),
                Outcome(L, [NoRet EXCEPT !.ptr = "dangling", !.text = Garbage])}
          ELSE IF v.t = "string"
          THEN {Outcome(L, [NoRet EXCEPT !.ptr = "valid", !.text = v.s])}
          ELSE IF v.t = "number"
          THEN {Outcome([L EXCEPT !.stack[i.pos] = Str(Num2Str(v.n))],
                        [NoRet EXCEPT !.ptr = "valid", !.text = Num2Str(v.n)])}
          ELSE {Outcome(L, NoRet)})

(* ------------------- faulty variants of the wrappers ------------------- *)

\* luawrap_pop popping one value too many.
luawrap_pop_extra(L, n) == lua_pop(L, n + 1)

\* luawrap_pop with a depth check of its own in front of the macro.
luawrap_pop_checked(L, n) ==
    IF L.live /\ n > L.top THEN {Outcome(L, NoRet)} ELSE lua_pop(L, n)

\* luawrap_pcall handing nargs and nresults over in the wrong order.
luawrap_pcall_swapped(L, nargs, nresults, errfunc) ==
    lua_pcall(L, nresults, nargs, errfunc)

\* luawrap_pcall counting the function among the arguments.
luawrap_pcall_fewer(L, nargs, nresults, errfunc) ==
    lua_pcall(L, nargs - 1, nresults, errfunc)

\* luawrap_pcall dropping the message handler.
luawrap_pcall_nohandler(L, nargs, nresults, errfunc) ==
    lua_pcall(L, nargs, nresults, 0)

\* luawrap_isfunction returning lua_type's code, non-zero for every type
\* but nil.
luawrap_isfunction_type(L, idx) ==
    OnLive(L, {Outcome(L, [NoRet EXCEPT !.flag = (lua_type(L, idx) # "nil")])})

\* luawrap_tonumber reading the slot above the one asked for.
luawrap_tonumber_shifted(L, idx) == lua_tonumber(L, idx + 1)

(* ----------------------------- the wrappers ---------------------------- *)

luawrap_pop(L, n) == lua_pop(L, n)

luawrap_pcall(L, nargs, nresults, errfunc) == lua_pcall(L, nargs, nresults, errfunc)

luawrap_isfunction(L, idx) == lua_isfunction(L, idx)

luawrap_tonumber(L, idx) == lua_tonumber(L, idx)

luawrap_tostring(L, idx) == lua_tostring(L, idx)

(* ------------------------------- the host ------------------------------ *)

\* The state the host holds now.
Cur == State(stack, top, live, fault)

\* The scalar values the host pushes as arguments.
PushValues == {Nil, True, Num(42), Num(-7), Str(<<"4", "2">>)}

\* The scripts the host loads; "bad" does not compile.
Sources == {"echo", "pair", "err", "oom", "tb", "bad"}

Indices == (0 - MaxStack - 1)..(MaxStack + 1)

Record(op, a1, a2, a3, ret) ==
    [op |-> op, a1 |-> a1, a2 |-> a2, a3 |-> a3, pre |-> Cur, ret |-> ret]

\* No call has returned that the host has not yet taken the result of.
Idle ==
    [op |-> "idle", a1 |-> 0, a2 |-> 0, a3 |-> 0,
     pre |-> State(<<>>, 0, TRUE, "none"), ret |-> NoRet]

\* The host makes its next call once it has taken the last result, and
\* only while no engine precondition has been violated.
Running == fault = "none" /\ last = Idle

Install(o) ==
    /\ stack' = o.L.stack
    /\ top' = o.L.top
    /\ live' = o.L.live
    /\ fault' = o.L.fault

Uncounted == UNCHANGED <<base, pushed, popped>>

Init ==
    /\ stack = <<>>
    /\ top = 0
    /\ live = TRUE
    /\ fault = "none"
    /\ last = Idle
    /\ base = 0
    /\ pushed = 0
    /\ popped = 0

\* Load: luaL_loadstring pushes the compiled chunk, or the message.
Load ==
    /\ Running /\ live /\ top < MaxStack
    /\ \E src \in Sources :
         LET ok == src # "bad"
             v == IF ok THEN Fn(src) ELSE Str(MsgEngine)
         IN  /\ stack' = Append(stack, v)
             /\ top' = top + 1
             /\ last' = Record("load", 0, 0, 0,
                   [NoRet EXCEPT !.status = IF ok THEN "LUA_OK" ELSE "LUA_ERRSYNTAX"])
    /\ UNCHANGED <<live, fault>>
    /\ Uncounted

\* PushArgument: lua_pushnil / lua_pushboolean / lua_pushnumber / lua_pushstring.
PushStep ==
    /\ Running /\ live /\ top < MaxStack
    /\ \E v \in PushValues :
         /\ stack' = Append(stack, v)
         /\ top' = top + 1
         /\ last' = Record("push", 0, 0, 0, NoRet)
    /\ UNCHANGED <<live, fault>>

PushArgument == PushStep /\ Uncounted

\* Pop(n): luawrap_pop.
PopStep ==
    /\ Running
    /\ \E n \in 0..MaxCount : \E o \in luawrap_pop(Cur, n) :
         /\ Install(o)
         /\ last' = Record("pop", n, 0, 0, o.ret)

Pop == PopStep /\ Uncounted

\* ProtectedCall(numArgs, numResults) with a message handler index.
ProtectedCall ==
    /\ Running
    /\ \E nargs \in 0..MaxCount, nresults \in {LUA_MULTRET} \cup 0..MaxCount,
          errfunc \in 0..MaxErrFunc :
         \E o \in luawrap_pcall(Cur, nargs, nresults, errfunc) :
           /\ o.L.top <= MaxStack
           /\ Install(o)
           /\ last' = Record("pcall", nargs, nresults, errfunc, o.ret)
    /\ Uncounted

\* IsCallable(stackIndex): luawrap_isfunction.
IsCallable ==
    /\ Running
    /\ \E idx \in Indices : \E o \in luawrap_isfunction(Cur, idx) :
         /\ Install(o)
         /\ last' = Record("isfunction", idx, 0, 0, o.ret)
    /\ Uncounted

\* ReadNumber(stackIndex): luawrap_tonumber.
ReadNumber ==
    /\ Running
    /\ \E idx \in Indices : \E o \in luawrap_tonumber(Cur, idx) :
         /\ Install(o)
         /\ last' = Record("tonumber", idx, 0, 0, o.ret)
    /\ Uncounted

\* ReadString(stackIndex): luawrap_tostring.
ReadString ==
    /\ Running
    /\ \E idx \in Indices : \E o \in luawrap_tostring(Cur, idx) :
         /\ Install(o)
         /\ last' = Record("tostring", idx, 0, 0, o.ret)
    /\ Uncounted

\* Teardown: lua_close releases the state.
Close ==
    /\ Running /\ live
    /\ stack' = <<>>
    /\ top' = 0
    /\ live' = FALSE
    /\ last' = Record("close", 0, 0, 0, NoRet)
    /\ UNCHANGED fault
    /\ Uncounted

\* The host takes the result of the call that returned and goes on.
Resume ==
    /\ fault = "none" /\ last # Idle
    /\ last' = Idle
    /\ UNCHANGED <<stack, top, live, fault, base, pushed, popped>>

Next ==
    \/ Load
    \/ PushArgument
    \/ Pop
    \/ ProtectedCall
    \/ IsCallable
    \/ ReadNumber
    \/ ReadString
    \/ Close
    \/ Resume

Spec == Init /\ [][Next]_vars

(* ------------------- runs of PushArgument and Pop alone ---------------- *)

\* The stacks a run of pushes and pops starts from.
Baselines == {<<>>, <<Fn("pair")>>, <<Fn("tb"), Fn("err")>>}

InitPushPop ==
    /\ stack \in Baselines
    /\ top = Len(stack)
    /\ live = TRUE
    /\ fault = "none"
    /\ last = Idle
    /\ base = Len(stack)
    /\ pushed = 0
    /\ popped = 0

\* PushArgument, counted.
PushCounted ==
    /\ pushed + popped < MaxOps
    /\ PushStep
    /\ pushed' = pushed + 1
    /\ UNCHANGED <<base, popped>>

\* Pop(n), counted.
PopCounted ==
    /\ pushed + popped < MaxOps
    /\ PopStep
    /\ popped' = popped + last'.a1
    /\ UNCHANGED <<base, pushed>>

NextPushPop ==
    \/ PushCounted
    \/ PopCounted
    \/ Resume

SpecPushPop == InitPushPop /\ [][NextPushPop]_vars

(* ------------------------------- claims -------------------------------- *)

\* The last operation was op, entered on a live state with no fault.
Ran(op) == last.op = op /\ last.pre.live /\ last.pre.fault = "none"

\* Position of the called function in the stack before the last pcall.
FPos == last.pre.top - last.a1

\* C1 (as stated): a ProtectedCall(numArgs, numResults) that succeeds
\* removes the function and its arguments and leaves exactly numResults
\* values in their place, nil-padded or truncated.
C1_AsStated ==
    (Ran("pcall") /\ last.ret.status = "LUA_OK") =>
        /\ top = FPos - 1 + last.a2
        /\ Len(stack) = FPos - 1 + last.a2

\* C1 (amended): a ProtectedCall(numArgs, numResults) that succeeds removes
\* the function and its arguments and leaves in their place exactly
\* numResults values when numResults >= 0 (the first returned values, nil
\* for the missing ones, extras dropped), and all the returned values when
\* numResults is LUA_MULTRET (-1).
C1_ResultCount ==
    (Ran("pcall") /\ last.ret.status = "LUA_OK") =>
        LET n == IF last.a2 = LUA_MULTRET THEN Len(last.ret.vals) ELSE last.a2
        IN  /\ top = FPos - 1 + n
            /\ Len(stack) = top
            /\ SubSeq(stack, 1, FPos - 1) = SubSeq(last.pre.stack, 1, FPos - 1)
            /\ \A i \in 1..n :
                 stack[FPos - 1 + i] =
                   IF i <= Len(last.ret.vals) THEN last.ret.vals[i] ELSE Nil

\* C1 witness: a function returning 2 values called with numResults = 3
\* left 3 values, the third nil.
C1_Padded ==
    /\ Ran("pcall") /\ last.ret.status = "LUA_OK"
    /\ Len(last.ret.vals) = 2 /\ last.a2 = 3
    /\ top = 3 /\ stack[3] = Nil /\ stack[1] = Tab

\* C2: when the called function raises, ProtectedCall returns an error
\* status, causes no host-level fault, and leaves exactly one value, the
\* error object, in place of the function and its arguments, whatever
\* numResults was.
C2_ErrorLeavesOne ==
    (Ran("pcall") /\ last.ret.raised # "none") =>
        /\ last.ret.status \in {"LUA_ERRRUN", "LUA_ERRMEM", "LUA_ERRERR"}
        /\ fault = "none"
        /\ top = FPos
        /\ Len(stack) = FPos
        /\ SubSeq(stack, 1, FPos - 1) = SubSeq(last.pre.stack, 1, FPos - 1)
        /\ (last.a3 = 0 => stack[FPos] = last.ret.rawerr)

\* C2 witness: error("boom") called with an argument and numResults = 3
\* left the message alone where the function was.
C2_Raised ==
    /\ Ran("pcall") /\ last.ret.raised = "run"
    /\ last.a1 = 1 /\ last.a2 = 3 /\ last.a3 = 0
    /\ last.pre.top = 3 /\ top = 2 /\ stack[2] = Str(MsgBoom)

\* C3: Pop(n) removes exactly the top n values when 0 <= n <= depth (a
\* no-op for n = 0), and when n exceeds the depth it fails with an error
\* and leaves the stack unchanged.
C3_PopChecked ==
    Ran("pop") =>
        IF last.a1 <= last.pre.top
        THEN /\ top = last.pre.top - last.a1
             /\ stack = SubSeq(last.pre.stack, 1, last.pre.top - last.a1)
             /\ fault = "none"
        ELSE /\ last.ret.status = "StackUnderflowError"
             /\ stack = last.pre.stack
             /\ top = last.pre.top
             /\ fault = "none"

C5_ClosedRejected ==
    (/\ last.op \in {"pop", "pcall", "isfunction", "tonumber", "tostring"}
     /\ ~last.pre.live) =>
        /\ last.ret.status = "InvalidStateError"
        /\ fault = "none"

\* C6: IsCallable(stackIndex) leaves the depth and every slot unchanged and
\* returns true exactly when the value at stackIndex is a function; right
\* after a successful Load it returns true for the top of the stack, and
\* for a pushed number it returns false.
C6_IsCallable ==
    /\ (Ran("isfunction") /\ Index(last.pre, last.a1).kind # "invalid") =>
          /\ stack = last.pre.stack
          /\ top = last.pre.top
          /\ fault = "none"
          /\ last.ret.flag =
               (/\ Index(last.pre, last.a1).kind = "slot"
                /\ last.pre.stack[Index(last.pre, last.a1).pos].t = "function")
    /\ (Ran("load") /\ last.ret.status = "LUA_OK") =>
          \A o \in luawrap_isfunction(Cur, -1) : o.ret.flag /\ o.L = Cur
    /\ (Ran("push") /\ stack[top].t = "number") =>
          \A o \in luawrap_isfunction(Cur, -1) : ~o.ret.flag /\ o.L = Cur

\* C6 witness: IsCallable answered true for a function beneath a number.
C6_SawFunction ==
    /\ Ran("isfunction") /\ last.a1 = -2 /\ last.ret.flag
    /\ top = 2 /\ stack[1] = Fn("pair") /\ stack[2] = Num(42)

\* C7: ReadString(stackIndex) returns an absent value whenever stackIndex
\* is out of range or the slot has no string coercion, and the text only
\* for a string or a number; never a dangling pointer.
C7_ReadStringAbsent ==
    Ran("tostring") =>
        LET i == Index(last.pre, last.a1)
            v == IF i.kind = "slot" THEN last.pre.stack[i.pos] ELSE Nil
        IN  /\ fault = "none"
            /\ last.ret.ptr # "dangling"
            /\ (last.ret.ptr = "valid") = (v.t \in {"string", "number"})

\* C8: ReadNumber(stackIndex) reports no error: the number for a number,
\* the converted number for a numeric string ("42" gives 42), and 0 for a
\* value that has no number coercion.
C8_ReadNumber ==
    (Ran("tonumber") /\ Index(last.pre, last.a1).kind # "invalid") =>
        LET i == Index(last.pre, last.a1)
            v == IF i.kind = "slot" THEN last.pre.stack[i.pos] ELSE Nil
        IN  /\ fault = "none"
            /\ last.ret.status = ""
            /\ top = last.pre.top
            /\ (v.t = "number" => last.ret.num = v.n)
            /\ (v = Str(<<"4", "2">>) => last.ret.num = 42)
            /\ (v.t = "string" /\ v.s \in {MsgBoom, MsgEngine} => last.ret.num = 0)
            /\ (v.t \notin {"number", "string"} => last.ret.num = 0)

\* C8 witness: the string "42" beneath a table read as 42.
C8_NumericString ==
    /\ Ran("tonumber") /\ last.a1 = 2 /\ last.ret.num = 42
    /\ top = 3 /\ stack[1] = Tab /\ stack[2] = Str(<<"4", "2">>)

\* C9 (as stated): with a handler function at errfunc, whenever the called
\* function raises an error the handler is invoked with the raw error
\* object before the call returns and the value left is the one produced
\* after the handler ran; the handler is not invoked on success.
C9_AsStated ==
    (/\ Ran("pcall") /\ last.a3 # 0 /\ FPos >= 1 /\ last.a3 < FPos
     /\ last.pre.stack[last.a3].t = "function") =>
        /\ (last.ret.raised # "none" =>
              /\ last.ret.hcalled
              /\ last.ret.harg = last.ret.rawerr)
        /\ (last.ret.status = "LUA_OK" => ~last.ret.hcalled)

\* C9 (amended): with a handler function at errfunc, whenever the called
\* function raises a runtime error other than a memory allocation error,
\* the handler is invoked with the raw error object before the call
\* returns and the single value left is the handler's result (the engine's
\* own message if the handler fails); the handler is not invoked when the
\* call succeeds, nor on a memory allocation error.
C9_HandlerOnRuntimeError ==
    (/\ Ran("pcall") /\ last.a3 # 0 /\ FPos >= 1 /\ last.a3 < FPos
     /\ last.pre.stack[last.a3].t = "function") =>
        LET hb == CallBody(last.pre.stack[last.a3], <<last.ret.rawerr>>)
        IN  /\ (last.ret.raised = "run" =>
                  /\ last.ret.hcalled
                  /\ last.ret.harg = last.ret.rawerr
                  /\ top = FPos
                  /\ stack[FPos] = IF hb.kind = "return" THEN hb.vals[1]
                                   ELSE Str(MsgEngine))
            /\ (last.ret.raised = "mem" =>
                  ~last.ret.hcalled /\ stack[FPos] = last.ret.rawerr)
            /\ (last.ret.status = "LUA_OK" => ~last.ret.hcalled)

\* C9 witness: error("boom") under the handler function(e) return {e} end
\* left the handler's table, the handler having received "boom".
C9_Handled ==
    /\ Ran("pcall") /\ last.a3 = 1 /\ last.ret.raised = "run"
    /\ last.pre.stack[1] = Fn("tb")
    /\ last.ret.hcalled /\ last.ret.harg = Str(MsgBoom)
    /\ top = 2 /\ stack[2] = Tab

\* C10: each wrapper is observationally equivalent to the macro it wraps:
\* the state and the result after the wrapper are a state and a result of
\* the bare macro on the same arguments in the same order.
C10_WrapperIsMacro ==
    LET now == Outcome(Cur, last.ret)
    IN  /\ last.op = "pop" => now \in lua_pop(last.pre, last.a1)
        /\ last.op = "pcall" =>
              now \in lua_pcall(last.pre, last.a1, last.a2, last.a3)
        /\ last.op = "isfunction" => now \in lua_isfunction(last.pre, last.a1)
        /\ last.op = "tonumber" => now \in lua_tonumber(last.pre, last.a1)
        /\ last.op = "tostring" => now \in lua_tostring(last.pre, last.a1)

\* C10 witness: a wrapper passed an underflowing count on to the engine
\* unchecked, as the bare macro does.
C10_Forwarded ==
    /\ last.op = "pop" /\ last.a1 = 2 /\ last.pre.top = 1
    /\ fault = "stack_underflow" /\ top = -1

====
